---- MODULE Spec2Model ----
(***************************************************************************)
(* Model of libqdma's device management (xdev.c): the global device list,  *)
(* the handle validator, the PCI resource mapper and the                    *)
(* open/close/online/offline state machine with the configuration          *)
(* accessors.                                                               *)
(*                                                                         *)
(* Spec: every entry point, called one after the other.  SpecHist: the     *)
(* same without set_config, the handles closed kept as history.  SpecOpen: *)
(* open with each of its failures.  SpecMap: open stopped at the return of  *)
(* xdev_map_bars.  SpecList: the list alone.  SpecConc: callers            *)
(* interleaved statement by statement on one handle.  SpecCopy: the        *)
(* configuration accessors interleaved field by field.  SpecCfg: the calls *)
(* that touch the configuration state, with snapshots the caller edited.   *)
(*                                                                         *)
(* A handle is the address kzalloc returned for the device object, so the  *)
(* heap is a finite set of addresses that kfree gives back to kzalloc.     *)
(* Every handler is a function from a machine state (list, heap, pci and a *)
(* log of the collaborator calls made) to a machine state and a return     *)
(* value; the actions of the specifications apply them.                    *)
(***************************************************************************)
EXTENDS Integers, Sequences, FiniteSets, TLC

\* ---------------------------------------------------------------- bounds
MaxAddr == 2          \* addresses kzalloc can hand out
NumPdev == 2          \* pci devices present on the bus
MaxIdxIn == 1         \* largest caller-supplied conf.idx
MaxCap == 2           \* largest buflen handed to xdev_list_dump
MaxIns == 3           \* devices inserted in the list-only specification
NumListPdev == 6      \* pci devices the list-only specification draws from
NumThreads == 2       \* concurrent callers on one handle

\* ------------------------------------------------------------- constants
\* errno values and the codes of libqdma_export.h; the handlers only return
\* and compare them.
NULL == 0
EINVAL == 22
EBUSY == 16
QDMA_OPERATION_SUCCESSFUL == 0
QDMA_ERR_PCI_DEVICE_ALREADY_ATTACHED == -2
QDMA_ERR_INVALID_INPUT_PARAM == -5
QDMA_ERR_INVALID_PCI_DEV == -6
QDMA_ERR_INTERFACE_NOT_ENABLED_IN_DEVICE == -16
CFG_UNCONFIGURED == 0
CFG_USER == 1
PCI_SHIFT_BUS == 12
PCI_SHIFT_DEV == 4

Addr == 1..MaxAddr
PDEV == 1..NumPdev
Builds == {"PF", "PF_IOV", "VF"}

\* ------------------------------------------------- the bus devices (pci_dev)
\* pdev->bus->number, PCI_SLOT(pdev->devfn), PCI_FUNC(pdev->devfn) and
\* pdev->device of the bus devices: two functions per slot, two slots per bus.
BusOf(p)  == (p - 1) \div 4
SlotOf(p) == ((p - 1) \div 2) % 2
FuncOf(p) == (p - 1) % 2
IsStmDevice(p) == p % 2 = 0

BdfOf(bus, slot, func) == bus * (2 ^ PCI_SHIFT_BUS) + slot * (2 ^ PCI_SHIFT_DEV) + func
PdevBdf(p) == BdfOf(BusOf(p), SlotOf(p), FuncOf(p))

\* ------------------------------------------------------- the device object
MkConf(p, bdf, idx, st, vf) ==
    [pdev |-> p, bdf |-> bdf, idx |-> idx, cur_cfg_state |-> st, vf_max |-> vf]

NoConf == MkConf(NULL, 0, 0, 0, 0)

\* A freed (or never allocated) address.
FreeObj ==
    [alive |-> FALSE, conf |-> NoConf, regs |-> NULL, stm_regs |-> NULL,
     stm_en |-> 0, offline |-> FALSE, hw |-> FALSE, mbox |-> FALSE]

\* xdev_alloc: kzalloc, memcpy of the caller's conf.
AllocObj(conf) ==
    [alive |-> TRUE, conf |-> conf, regs |-> NULL, stm_regs |-> NULL,
     stm_en |-> 0, offline |-> FALSE, hw |-> FALSE, mbox |-> FALSE]

\* owner: who holds the regions ("none", "self", or "other": another driver
\* of the system, which has then enabled the device too).
PciFree == [owner |-> "none", enable_cnt |-> 0]
PciForeign == [owner |-> "other", enable_cnt |-> 1]

EmptyMachine ==
    [list |-> << >>, heap |-> [a \in Addr |-> FreeObj],
     pci |-> [p \in PDEV |-> PciFree], log |-> << >>]

Call(m, c) == [m EXCEPT !.log = Append(@, c)]

\* ------------------------------------------------------------ the registry
\* list_for_each_entry_safe over xdev_list, first match on conf.pdev.
RECURSIVE FindFrom(_, _, _)
FindFrom(m, pdev, i) ==
    IF i > Len(m.list) THEN NULL
    ELSE IF m.heap[m.list[i]].conf.pdev = pdev THEN m.list[i]
    ELSE FindFrom(m, pdev, i + 1)

xdev_find_by_pdev(m, pdev) == FindFrom(m, pdev, 1)

RECURSIVE FindIdxFrom(_, _, _)
FindIdxFrom(m, bdf, i) ==
    IF i > Len(m.list) THEN NULL
    ELSE IF m.heap[m.list[i]].conf.bdf = bdf THEN m.list[i]
    ELSE FindIdxFrom(m, bdf, i + 1)

xdev_find_by_idx(m, bdf) == FindIdxFrom(m, bdf, 1)

\* The loop of xdev_list_add over the list (which already holds the new
\* device): only the new device's idx is written, last_dev is taken from the
\* new device, and last_bus/last_dev start at 0.  vf is the __QDMA_VF__ build.
RECURSIVE IdxScan(_, _, _, _, _, _)
IdxScan(buses, slots, i, st, newslot, vf) ==
    IF i > Len(buses) THEN st.idx
    ELSE LET differ == IF vf THEN st.last_bus # buses[i]
                       ELSE (st.last_bus # buses[i]) \/ (st.last_dev # slots[i])
             idx0 == IF differ THEN 0 ELSE st.idx
         IN IdxScan(buses, slots, i + 1,
                    [idx |-> idx0 + 1, last_bus |-> buses[i], last_dev |-> newslot],
                    newslot, vf)

ListAddIdx(buses, slots, idx_in, vf) ==
    IdxScan(buses, slots, 1, [idx |-> idx_in, last_bus |-> 0, last_dev |-> 0],
            slots[Len(slots)], vf)

\* xdev_list_add of the object at address a (already allocated).
xdev_list_add(m, a, vf) ==
    LET p     == m.heap[a].conf.pdev
        list1 == Append(m.list, a)
        m1    == [m EXCEPT !.list = list1,
                           !.heap[a].conf.bdf = PdevBdf(p)]
        buses == [i \in 1..Len(list1) |-> BusOf(m1.heap[list1[i]].conf.pdev)]
        slots == [i \in 1..Len(list1) |-> SlotOf(m1.heap[list1[i]].conf.pdev)]
    IN [m1 EXCEPT !.heap[a].conf.idx =
                      ListAddIdx(buses, slots, m.heap[a].conf.idx, vf),
                  !.heap[a].conf.cur_cfg_state = CFG_UNCONFIGURED]

\* list_del: unlinks every occurrence (a linked node occurs once).
xdev_list_remove(m, a) ==
    [m EXCEPT !.list = SelectSeq(@, LAMBDA x : x # a)]

\* list_first_entry and list_next_entry are container_of applied to a
\* list_head: applied to the head of the list itself (the list is empty, or
\* the entry is the last one) they yield this address, which is that of no
\* device and is not NULL.
ListHeadEntry == -1

xdev_list_first(m) ==
    IF m.list = << >> THEN ListHeadEntry ELSE m.list[1]

\* xdev is a device on the list, or ListHeadEntry (whose list_head is the
\* head, and whose next entry is the first one).
xdev_list_next(m, xdev) ==
    IF xdev = ListHeadEntry THEN xdev_list_first(m)
    ELSE LET i == CHOOSE k \in 1..Len(m.list) : m.list[k] = xdev
         IN IF i = Len(m.list) THEN ListHeadEntry ELSE m.list[i + 1]

\* ------------------------------------------------------- handle validator
xdev_check_hndl(m, pdev, hndl) ==
    IF pdev = NULL THEN -EINVAL
    ELSE LET xdev == xdev_find_by_pdev(m, pdev)
         IN IF xdev = NULL THEN -EINVAL
            ELSE IF xdev # hndl THEN -EINVAL
            ELSE IF m.heap[xdev].conf.pdev # pdev THEN -EINVAL
            ELSE 0

\* ------------------------------------------ bus platform primitives (pci)
\* pci_request_regions fails with -EBUSY iff the regions are already held
\* (by this driver or, as the comment at the call says, by some other one).
RegionsBusy(m, p) == m.pci[p].owner # "none"
pci_request_regions(m, p) == [m EXCEPT !.pci[p].owner = "self"]
pci_release_regions(m, p) == [m EXCEPT !.pci[p].owner = "none"]
\* pci_enable_device / pci_disable_device count in pci_dev.enable_cnt.
pci_enable_device(m, p)  == [m EXCEPT !.pci[p].enable_cnt = @ + 1]
pci_disable_device(m, p) == [m EXCEPT !.pci[p].enable_cnt = @ - 1]

\* ---------------------------------------------------------- resource mapper
Res(m, rv) == [m |-> m, rv |-> rv]

xdev_unmap_bars(m, a) ==
    [m EXCEPT !.heap[a].regs = NULL, !.heap[a].stm_regs = NULL]

\* A mapper that returns from the identification mismatch without unmapping.
xdev_map_bars_SigKeepsMapping(m, a, pdev, f, build) ==
    IF f = "map_regs" THEN Res(m, -EINVAL)
    ELSE LET m1 == [m EXCEPT !.heap[a].regs = pdev]
         IN IF build # "VF" /\ f = "sig"
            THEN Res(m1, -EINVAL)
            ELSE IF IsStmDevice(pdev)
            THEN IF f = "stm_map" THEN Res(m1, -EINVAL)
                 ELSE LET m2 == [m1 EXCEPT !.heap[a].stm_regs = pdev]
                      IN IF f = "stm_rev"
                         THEN Res(xdev_unmap_bars(m2, a), -EINVAL)
                         ELSE Res([m2 EXCEPT !.heap[a].stm_en = 1], 0)
            ELSE Res([m1 EXCEPT !.heap[a].stm_en = 0], 0)

\* f names the step the hardware makes fail: "map_regs" (pci_iomap of the
\* config bar), "sig" (identification word), "stm_map" (pci_iomap of the STM
\* bar), "stm_rev" (STM revision word); anything else lets every step pass.
xdev_map_bars(m, a, pdev, f, build) ==
    IF f = "map_regs" THEN Res(m, -EINVAL)
    ELSE LET m1 == [m EXCEPT !.heap[a].regs = pdev]
         IN IF build # "VF" /\ f = "sig"
            THEN Res(xdev_unmap_bars(m1, a), -EINVAL)
            ELSE IF IsStmDevice(pdev)
            THEN IF f = "stm_map" THEN Res(m1, -EINVAL)
                 ELSE LET m2 == [m1 EXCEPT !.heap[a].stm_regs = pdev]
                      IN IF f = "stm_rev"
                         THEN Res(xdev_unmap_bars(m2, a), -EINVAL)
                         ELSE Res([m2 EXCEPT !.heap[a].stm_en = 1], 0)
            ELSE Res([m1 EXCEPT !.heap[a].stm_en = 0], 0)

\* ------------------------------------------------------------ collaborators
\* qdma_device_init / qdma_device_cleanup and qdma_mbox_init / _cleanup keep
\* one bit of state each in the device; every call is logged.
qdma_device_cleanup(m, a) == Call([m EXCEPT !.heap[a].hw = FALSE], "device_cleanup")
qdma_mbox_cleanup(m, a)   == Call([m EXCEPT !.heap[a].mbox = FALSE], "mbox_cleanup")

\* ------------------------------------------------------ online and offline
\* qdma_device_offline after its two checks.
OfflineBody(m, dev_hndl, build) ==
    LET m1 == [m EXCEPT !.heap[dev_hndl].offline = TRUE]
        m2 == IF build = "VF" THEN Call(m1, "sriov_vf_offline")
              ELSE IF build = "PF_IOV" THEN Call(m1, "sriov_disable")
              ELSE m1
    IN qdma_mbox_cleanup(qdma_device_cleanup(m2, dev_hndl), dev_hndl)

qdma_device_offline(m, pdev, dev_hndl, build) ==
    IF dev_hndl = NULL THEN m
    ELSE IF xdev_check_hndl(m, pdev, dev_hndl) < 0 THEN m
    ELSE OfflineBody(m, dev_hndl, build)

\* qdma_device_online after its two checks.  f = "init": qdma_device_init
\* fails; f = "virt": xdev_sriov_vf_online or xdev_sriov_enable fails.
OnlineBody(m, dev_hndl, f, build) ==
    IF f = "init"
    THEN Res(qdma_device_cleanup(Call(m, "device_init_fail"), dev_hndl), -EINVAL)
    ELSE LET m1 == Call([m EXCEPT !.heap[dev_hndl].hw = TRUE], "device_init")
             m2 == Call([m1 EXCEPT !.heap[dev_hndl].offline = FALSE,
                                   !.heap[dev_hndl].mbox = TRUE], "mbox_init")
         IN IF build = "VF"
            THEN LET m3 == Call(m2, "mbox_start")
                 IN IF f = "virt"
                    THEN Res(qdma_device_cleanup(Call(m3, "sriov_vf_online_fail"),
                                                 dev_hndl), -EINVAL)
                    ELSE Res(Call(m3, "sriov_vf_online"), 0)
            ELSE IF build = "PF_IOV" /\ m2.heap[dev_hndl].conf.vf_max # 0
            THEN IF f = "virt"
                 THEN Res(qdma_device_cleanup(Call(m2, "sriov_enable_fail"),
                                              dev_hndl), -EINVAL)
                 ELSE Res(Call(m2, "sriov_enable"), 0)
            ELSE Res(m2, 0)

qdma_device_online(m, pdev, dev_hndl, f, build) ==
    IF dev_hndl = NULL THEN Res(m, -EINVAL)
    ELSE IF xdev_check_hndl(m, pdev, dev_hndl) < 0 THEN Res(m, -EINVAL)
    ELSE OnlineBody(m, dev_hndl, f, build)

\* ------------------------------------------------------------------- open
kfree(m, a) == [m EXCEPT !.heap[a] = FreeObj]

\* The unwinding with the disable_device label left out.
OpenUnwindNoDisable(m, label, a, pdev, build) ==
    LET m1 == IF label <= 1 THEN qdma_device_offline(m, pdev, a, build) ELSE m
        m2 == IF label <= 2
              THEN kfree(xdev_list_remove(xdev_unmap_bars(m1, a), a), a)
              ELSE m1
    IN pci_release_regions(m2, pdev)

\* The labels at the end of qdma_device_open, which fall through:
\* 1 cleanup_qdma, 2 unmap_bars, 3 disable_device, 4 release_regions.
OpenUnwind(m, label, a, pdev, build) ==
    LET m1 == IF label <= 1 THEN qdma_device_offline(m, pdev, a, build) ELSE m
        m2 == IF label <= 2
              THEN kfree(xdev_list_remove(xdev_unmap_bars(m1, a), a), a)
              ELSE m1
        m3 == IF label <= 3 THEN pci_disable_device(m2, pdev) ELSE m2
    IN pci_release_regions(m3, pdev)

\* step: the place in open where it returned.
OpenRes(m, rv, hndl, step) ==
    [m |-> m, rv |-> rv, hndl |-> hndl, step |-> step, crash |-> step = "oops"]

\* xdev_alloc, the OFFLINE flag and xdev_list_add: the object as
\* xdev_map_bars receives it.
OpenAlloc(m, conf, a, build) ==
    xdev_list_add([m EXCEPT !.heap[a] = [AllocObj(conf) EXCEPT !.offline = TRUE]],
                  a, build = "VF")

\* open() from pci_request_regions on: the bus reference is attached to no
\* device of this driver.
OpenClaim(m, inp, f, a, build) ==
    IF RegionsBusy(m, inp.pdev) THEN OpenRes(m, -EBUSY, 0, "request")
    ELSE
    LET pdev == inp.pdev
        m1 == pci_request_regions(m, pdev)
    IN IF f = "enable"
       THEN OpenRes(OpenUnwind(m1, 4, a, pdev, build), -EINVAL, 0, "enable")
       ELSE
       LET m2 == pci_enable_device(m1, pdev)
       IN IF f = "dma"
          THEN OpenRes(OpenUnwind(m2, 3, a, pdev, build), -EINVAL, 0, "dma")
          ELSE IF a = NULL
          \* xdev_alloc returned NULL: rv still holds pci_dma_mask_set's 0
          THEN OpenRes(OpenUnwind(m2, 3, a, pdev, build), 0, 0, "alloc")
          ELSE
          LET conf == MkConf(pdev, inp.bdf, inp.idx, inp.cur_cfg_state, inp.vf_max)
              m4 == OpenAlloc(m2, conf, a, build)
              mp == xdev_map_bars(m4, a, pdev, f, build)
          IN IF mp.rv # 0
             THEN OpenRes(OpenUnwind(mp.m, 2, a, pdev, build), mp.rv, 0, "map")
             ELSE IF build # "VF" /\ f = "no_mode"
             THEN OpenRes(OpenUnwind(mp.m, 2, a, pdev, build),
                          QDMA_ERR_INTERFACE_NOT_ENABLED_IN_DEVICE, 0, "no_mode")
             ELSE
             LET on == qdma_device_online(mp.m, pdev, a, f, build)
             IN IF on.rv < 0
                THEN OpenRes(OpenUnwind(on.m, 1, a, pdev, build), on.rv, 0, "online")
                ELSE OpenRes(on.m, QDMA_OPERATION_SUCCESSFUL, a, "done")

\* An open() that enables the bus device before it looks the reference up.
qdma_device_open_EnableFirst(m, inp, f, a, build) ==
    IF ~inp.has_conf
    THEN IF f = "oops" THEN OpenRes(m, 0, 0, "oops")
         ELSE OpenRes(m, QDMA_ERR_INVALID_INPUT_PARAM, 0, "input")
    ELSE IF ~inp.has_mod THEN OpenRes(m, QDMA_ERR_INVALID_INPUT_PARAM, 0, "input")
    ELSE IF inp.pdev = NULL THEN OpenRes(m, QDMA_ERR_INVALID_PCI_DEV, 0, "pdev")
    ELSE IF xdev_find_by_pdev(m, inp.pdev) # NULL
    THEN OpenRes(pci_enable_device(m, inp.pdev),
                 QDMA_ERR_PCI_DEVICE_ALREADY_ATTACHED, 0, "attached")
    ELSE OpenClaim(m, inp, f, a, build)

\* inp: has_mod / has_conf (the pointers are non-NULL) and the fields of
\* *conf that open reads.  a: the address kzalloc returns (NULL: none).
\* f: the step that fails ("oops": the load of conf->pdev through a NULL
\* conf traps; otherwise the load is harmless and the check at 581 is reached).
qdma_device_open(m, inp, f, a, build) ==
    IF ~inp.has_conf
    THEN IF f = "oops" THEN OpenRes(m, 0, 0, "oops")
         ELSE OpenRes(m, QDMA_ERR_INVALID_INPUT_PARAM, 0, "input")
    ELSE IF ~inp.has_mod THEN OpenRes(m, QDMA_ERR_INVALID_INPUT_PARAM, 0, "input")
    ELSE IF inp.pdev = NULL THEN OpenRes(m, QDMA_ERR_INVALID_PCI_DEV, 0, "pdev")
    ELSE IF xdev_find_by_pdev(m, inp.pdev) # NULL
    THEN OpenRes(m, QDMA_ERR_PCI_DEVICE_ALREADY_ATTACHED, 0, "attached")
    ELSE OpenClaim(m, inp, f, a, build)

\* ------------------------------------------------------------------ close
qdma_device_close(m, pdev, dev_hndl, build) ==
    IF dev_hndl = NULL THEN m
    ELSE IF xdev_check_hndl(m, pdev, dev_hndl) < 0 THEN m
    ELSE LET m1 == qdma_device_offline(m, pdev, dev_hndl, build)
             m2 == xdev_unmap_bars(m1, dev_hndl)
             m3 == pci_disable_device(pci_release_regions(m2, pdev), pdev)
         IN kfree(xdev_list_remove(m3, dev_hndl), dev_hndl)

\* ------------------------------------------------- configuration accessors
\* The three accessors load xdev->conf.pdev through the handle before
\* xdev_check_hndl runs; pdev is the value that load produced.
qdma_device_get_config(m, pdev, dev_hndl) ==
    IF xdev_check_hndl(m, pdev, dev_hndl) < 0
    THEN [rv |-> -EINVAL, conf |-> NoConf]
    ELSE [rv |-> 0, conf |-> m.heap[dev_hndl].conf]

\* has_conf: the conf pointer is non-NULL (checked before anything else).
qdma_device_set_config(m, pdev, dev_hndl, has_conf, conf) ==
    IF ~has_conf THEN Res(m, -EINVAL)
    ELSE IF xdev_check_hndl(m, pdev, dev_hndl) < 0 THEN Res(m, -EINVAL)
    ELSE Res([m EXCEPT !.heap[dev_hndl].conf = conf], 0)

\* new_cfg_state: the value as enum cfg_state holds it; the enum has no
\* negative enumerator, so it is unsigned and a negative number passed by a
\* caller arrives as a value above CFG_USER.
qdma_device_set_cfg_state(m, pdev, dev_hndl, new_cfg_state) ==
    IF new_cfg_state > CFG_USER THEN Res(m, -EINVAL)
    ELSE IF xdev_check_hndl(m, pdev, dev_hndl) < 0 THEN Res(m, -EINVAL)
    ELSE Res([m EXCEPT !.heap[dev_hndl].conf.cur_cfg_state = new_cfg_state], 0)

\* ------------------------------------------------------------------- dump
HexDigit(d) == SubSeq(<<"0", "1", "2", "3", "4", "5", "6", "7", "8", "9",
                        "a", "b", "c", "d", "e", "f">>, d + 1, d + 1)

\* printf's %0<w>x: at least w digits, more when the value needs them.
RECURSIVE Hex(_, _)
Hex(v, w) ==
    IF v < 16 /\ w <= 1 THEN HexDigit(v)
    ELSE Hex(v \div 16, w - 1) \o HexDigit(v % 16)

\* "qdma%05x\t%02x:%02x.%02x\n"
DumpLine(conf) ==
    <<"q", "d", "m", "a">> \o Hex(conf.bdf, 5) \o <<"\t">>
        \o Hex(BusOf(conf.pdev), 2) \o <<":">> \o Hex(SlotOf(conf.pdev), 2)
        \o <<".">> \o Hex(FuncOf(conf.pdev), 2) \o <<"\n">>

\* The loop of xdev_list_dump: sprintf the whole line, then test len.
RECURSIVE DumpFrom(_, _, _, _)
DumpFrom(m, i, text, buflen) ==
    IF i > Len(m.list) THEN text
    ELSE LET t == text \o DumpLine(m.heap[m.list[i]].conf)
         IN IF Len(t) >= buflen THEN t ELSE DumpFrom(m, i + 1, t, buflen)

\* text: the characters sprintf stored at buf[0..len-1]; '\0' goes to buf[len].
xdev_list_dump(m, buflen) ==
    LET text == DumpFrom(m, 1, << >>, buflen)
    IN [text |-> text, len |-> Len(text), last_written |-> Len(text)]

\* ===================================================================== state
VARIABLES
    build,       \* which of the three compile-time variants is running
    xdev_list,   \* the global list, as the sequence of object addresses
    heap,        \* the device objects by address
    pci,         \* the bus devices
    closed,      \* history: handles a close() has torn down
    ret,         \* the last call: its arguments, what it returned and did
    thr,         \* concurrent callers: the call each is in and its position
    cnt          \* history of the concurrent calls: teardown steps taken

vars == <<build, xdev_list, heap, pci, closed, ret, thr, cnt>>

Machine == [list |-> xdev_list, heap |-> heap, pci |-> pci, log |-> << >>]

Commit(m) ==
    /\ xdev_list' = m.list
    /\ heap' = m.heap
    /\ pci' = m.pci

NoRet ==
    [op |-> "none", pdev |-> NULL, hndl |-> NULL, rv |-> 0, f |-> "none",
     crash |-> FALSE, pre |-> "none", calls |-> << >>, out |-> NoConf,
     arg |-> NoConf, st |-> 0, step |-> "none", pci0 |-> PciFree,
     map0 |-> FALSE, live0 |-> {}, off0 |-> FALSE, nul |-> 0, text |-> << >>]

Ret(op, pdev, hndl, rv) ==
    [NoRet EXCEPT !.op = op, !.pdev = pdev, !.hndl = hndl, !.rv = rv]

Live == {a \in DOMAIN heap : heap[a].alive}
FreeAddrs == {a \in DOMAIN heap : ~heap[a].alive}
Registered == {xdev_list[i] : i \in 1..Len(xdev_list)}

\* Some live object maps a region of bus device p.
Mapped(h, p) == \E a \in DOMAIN h : h[a].alive /\ (h[a].regs = p \/ h[a].stm_regs = p)

Faults == {"none", "oops", "enable", "dma", "alloc", "map_regs", "sig",
           "stm_map", "stm_rev", "no_mode", "init", "virt"}

\* The steps that exist for this build, device and configuration.
FaultApplies(f, b, has_conf, pdev, vf_max) ==
    CASE f = "oops"    -> ~has_conf
      [] f = "sig"     -> b # "VF"
      [] f = "no_mode" -> b # "VF"
      [] f = "stm_map" -> pdev # NULL /\ IsStmDevice(pdev)
      [] f = "stm_rev" -> pdev # NULL /\ IsStmDevice(pdev)
      [] f = "virt"    -> b = "VF" \/ (b = "PF_IOV" /\ vf_max # 0)
      [] OTHER         -> TRUE

\* conf.vf_max as callers supply it: virtual functions are asked for on the
\* CONFIG_PCI_IOV build (with none asked for it behaves as the plain build).
VfIn(b) == IF b = "PF_IOV" THEN {1} ELSE {0}

\* What a caller hands to open: mod_name and conf present or NULL, and the
\* fields of *conf (bdf and cur_cfg_state are overwritten by xdev_list_add).
OpenInputs ==
    {[has_mod |-> TRUE, has_conf |-> TRUE, pdev |-> p, bdf |-> 0, idx |-> 0,
      cur_cfg_state |-> CFG_UNCONFIGURED, vf_max |-> v] :
         p \in PDEV \cup {NULL}, v \in VfIn(build)}
    \cup {[has_mod |-> hm, has_conf |-> hc, pdev |-> NULL, bdf |-> 0, idx |-> 0,
           cur_cfg_state |-> CFG_UNCONFIGURED, vf_max |-> 0] :
              hm \in BOOLEAN, hc \in BOOLEAN}

HandleOps == {"online", "offline", "close", "get_config", "set_config", "set_cfg_state"}

Threads == 1..NumThreads

NoThreads == [t \in Threads |-> [op |-> "none", pc |-> "idle"]]
NoCounts == [unlinked |-> 0, freed |-> 0, released |-> 0, uaf |-> FALSE]

Init ==
    /\ build \in Builds
    /\ xdev_list = << >>
    /\ heap = [a \in Addr |-> FreeObj]
    /\ pci \in {[p \in PDEV |-> IF p = NumPdev THEN x ELSE PciFree] :
                  x \in {PciFree, PciForeign}}
    /\ closed = {}
    /\ ret = NoRet
    /\ thr = NoThreads
    /\ cnt = NoCounts

\* ---------------------------------------------------------------- actions
\* No call is in progress: the caller has taken the last result.
Idle == ret = NoRet

Open(inp, f, a) ==
    /\ Idle
    /\ FaultApplies(f, build, inp.has_conf, inp.pdev, inp.vf_max)
    /\ \/ a \in FreeAddrs /\ f # "alloc"
       \/ a = NULL /\ (f = "alloc" \/ FreeAddrs = {})
    /\ \E r \in {qdma_device_open(Machine, inp, f, a, build)} :
          /\ Commit(r.m)
          /\ ret' = [Ret("open", inp.pdev, r.hndl, r.rv) EXCEPT
                        !.crash = r.crash, !.calls = r.m.log,
                        !.step = r.step, !.live0 = Live,
                        !.pre = IF inp.has_conf THEN "none" ELSE "null",
                        !.pci0 = IF inp.pdev = NULL THEN PciFree ELSE pci[inp.pdev],
                        !.map0 = inp.pdev # NULL /\ Mapped(heap, inp.pdev)]
    /\ UNCHANGED <<build, closed, thr, cnt>>

\* track: whether the history variable records the handle torn down.
\* close and offline return nothing: rv records whether the call went past
\* its checks (0) or returned at one of them (-EINVAL).
CloseCall(p, h, track) ==
    /\ Idle
    /\ \E m \in {qdma_device_close(Machine, p, h, build)},
          ok \in {h # NULL /\ xdev_check_hndl(Machine, p, h) = 0} :
          /\ Commit(m)
          /\ ret' = [Ret("close", p, h, IF ok THEN 0 ELSE -EINVAL) EXCEPT
                        !.calls = m.log]
          /\ closed' = IF ok /\ track THEN closed \cup {h} ELSE closed
    /\ UNCHANGED <<build, thr, cnt>>

Close(p, h) == CloseCall(p, h, FALSE)

CloseH(p, h) == CloseCall(p, h, TRUE)

Online(p, h, f) ==
    /\ Idle
    /\ f \in {"none", "init", "virt"}
    /\ IF h # NULL /\ xdev_check_hndl(Machine, p, h) = 0
       THEN FaultApplies(f, build, TRUE, p, heap[h].conf.vf_max)
       ELSE f = "none"
    /\ \E r \in {qdma_device_online(Machine, p, h, f, build)} :
          /\ Commit(r.m)
          /\ ret' = [Ret("online", p, h, r.rv) EXCEPT
                        !.f = f, !.calls = r.m.log,
                        !.off0 = (h # NULL /\ heap[h].alive /\ heap[h].offline)]
    /\ UNCHANGED <<build, closed, thr, cnt>>

Offline(p, h) ==
    /\ Idle
    /\ \E m \in {qdma_device_offline(Machine, p, h, build)},
          ok \in {h # NULL /\ xdev_check_hndl(Machine, p, h) = 0} :
          /\ Commit(m)
          /\ ret' = [Ret("offline", p, h, IF ok THEN 0 ELSE -EINVAL) EXCEPT
                        !.calls = m.log]
    /\ UNCHANGED <<build, closed, thr, cnt>>

\* What the load of xdev->conf.pdev through handle h can produce: the field
\* of a live object, anything at all from freed memory, and through a NULL
\* handle a trap (f = "oops") or anything at all.
PreLoad(h) ==
    IF h = NULL THEN "null" ELSE IF heap[h].alive THEN "live" ELSE "freed"

Loaded(h) ==
    IF h # NULL /\ heap[h].alive THEN {heap[h].conf.pdev} ELSE PDEV \cup {NULL}

GetConfig(h, g, f) ==
    /\ Idle
    /\ g \in Loaded(h)
    /\ f \in {"none", "oops"} /\ (f = "oops" => h = NULL)
    /\ \E r \in {qdma_device_get_config(Machine, g, h)} :
          ret' = [Ret("get_config", NULL, h, IF f = "oops" THEN 0 ELSE r.rv) EXCEPT
                     !.f = f, !.crash = (f = "oops"), !.pre = PreLoad(h),
                     !.out = IF f = "oops" THEN NoConf ELSE r.conf]
    /\ UNCHANGED <<build, xdev_list, heap, pci, closed, thr, cnt>>

\* The snapshots a caller hands to set_config: the configuration of any
\* registered device (its own, read back, or another device's).
CfgIn == {heap[a].conf : a \in Registered}

SetConfig(h, hc, x, g, f) ==
    /\ Idle
    /\ g \in Loaded(h)
    /\ f \in {"none", "oops"} /\ (f = "oops" => h = NULL /\ hc)
    /\ \E r \in {qdma_device_set_config(Machine, g, h, hc, x)} :
          IF f = "oops"
          THEN /\ ret' = [Ret("set_config", NULL, h, 0) EXCEPT
                             !.f = f, !.crash = TRUE, !.pre = PreLoad(h), !.arg = x]
               /\ UNCHANGED <<xdev_list, heap, pci>>
          ELSE /\ Commit(r.m)
               /\ ret' = [Ret("set_config", NULL, h, r.rv) EXCEPT
                             !.pre = IF hc THEN PreLoad(h) ELSE "none",
                             !.arg = IF hc THEN x ELSE NoConf]
    /\ UNCHANGED <<build, closed, thr, cnt>>

SetCfgState(h, st, g, f) ==
    /\ Idle
    /\ g \in Loaded(h)
    /\ f \in {"none", "oops"} /\ (f = "oops" => h = NULL /\ st <= CFG_USER)
    /\ \E r \in {qdma_device_set_cfg_state(Machine, g, h, st)} :
          IF f = "oops"
          THEN /\ ret' = [Ret("set_cfg_state", NULL, h, 0) EXCEPT
                             !.f = f, !.crash = TRUE, !.pre = PreLoad(h), !.st = st]
               /\ UNCHANGED <<xdev_list, heap, pci>>
          ELSE /\ Commit(r.m)
               /\ ret' = [Ret("set_cfg_state", NULL, h, r.rv) EXCEPT
                             !.pre = IF st > CFG_USER THEN "none" ELSE PreLoad(h),
                             !.st = st]
    /\ UNCHANGED <<build, closed, thr, cnt>>

Validate(p, h) ==
    /\ Idle
    /\ ret' = Ret("check_hndl", p, h, xdev_check_hndl(Machine, p, h))
    /\ UNCHANGED <<build, xdev_list, heap, pci, closed, thr, cnt>>

\* The caller takes the result; the next call starts from ret = NoRet.
Return ==
    /\ ret # NoRet
    /\ ret' = NoRet
    /\ UNCHANGED <<build, xdev_list, heap, pci, closed, thr, cnt>>


Handles == Addr \cup {NULL}
PdevArgs == PDEV \cup {NULL}

Next ==
    \/ Return
    \/ \E inp \in OpenInputs, f \in Faults, a \in Handles : Open(inp, f, a)
    \/ \E p \in PdevArgs, h \in Handles : Close(p, h)
    \/ \E p \in PdevArgs, h \in Handles, f \in Faults : Online(p, h, f)
    \/ \E p \in PdevArgs, h \in Handles : Offline(p, h)
    \/ \E h \in Handles, g \in PdevArgs, f \in Faults : GetConfig(h, g, f)
    \/ \E h \in Handles, g \in PdevArgs, f \in Faults :
           \E hc \in BOOLEAN, x \in CfgIn : SetConfig(h, hc, x, g, f)
    \/ \E h \in Handles, g \in PdevArgs, f \in Faults :
           \E st \in CFG_UNCONFIGURED..(CFG_USER + 1) : SetCfgState(h, st, g, f)
    \/ \E p \in PdevArgs, h \in Handles : Validate(p, h)

Spec == Init /\ [][Next]_vars

\* The calls of the open-to-close life of a handle, with the history of the
\* handles closed.
NextHist ==
    \/ Return
    \/ \E inp \in OpenInputs, f \in Faults, a \in Handles : Open(inp, f, a)
    \/ \E p \in PdevArgs, h \in Handles : CloseH(p, h)
    \/ \E p \in PdevArgs, h \in Handles, f \in Faults : Online(p, h, f)
    \/ \E p \in PdevArgs, h \in Handles : Offline(p, h)
    \/ \E h \in Handles, g \in PdevArgs, f \in Faults : GetConfig(h, g, f)
    \/ \E h \in Handles, g \in PdevArgs, f \in Faults :
           \E st \in CFG_UNCONFIGURED..(CFG_USER + 1) : SetCfgState(h, st, g, f)
    \/ \E p \in PdevArgs, h \in Handles : Validate(p, h)

SpecHist == Init /\ [][NextHist]_vars

\* Nothing in the handlers depends on which address an object has, so here
\* kzalloc hands out the lowest free one.
LowestFree == {a \in FreeAddrs : \A b \in FreeAddrs : a <= b}

\* open and its unwinding, among devices opened, re-configured and closed.
NextOpen ==
    \/ Return
    \/ \E inp \in OpenInputs, f \in Faults, a \in LowestFree \cup {NULL} : Open(inp, f, a)
    \/ \E p \in PDEV, h \in Registered : Close(p, h)
    \/ \E h \in Registered, g \in PDEV :
           \E x \in CfgIn \ {heap[h].conf} : SetConfig(h, TRUE, x, g, "none")

SpecOpen == Init /\ [][NextOpen]_vars

\* ------------------------------------- the configuration state of a device
\* The snapshots a caller hands to set_config after editing the state field
\* of what get_config returned: the field is a plain member of the caller's
\* structure and takes whatever the caller stores in it.
CfgEdited(h) ==
    {[heap[h].conf EXCEPT !.cur_cfg_state = s] :
        s \in CFG_UNCONFIGURED..(CFG_USER + 1)}

\* The calls that touch the configuration state, on registered devices.
NextCfg ==
    \/ Return
    \/ \E inp \in OpenInputs, a \in LowestFree : Open(inp, "none", a)
    \/ \E h \in Registered : Close(heap[h].conf.pdev, h)
    \/ \E h \in Registered : Online(heap[h].conf.pdev, h, "none")
    \/ \E h \in Registered : Offline(heap[h].conf.pdev, h)
    \/ \E h \in Registered :
           \E x \in CfgEdited(h) : SetConfig(h, TRUE, x, heap[h].conf.pdev, "none")
    \/ \E h \in Registered, st \in CFG_UNCONFIGURED..(CFG_USER + 1) :
           SetCfgState(h, st, heap[h].conf.pdev, "none")

SpecCfg == Init /\ [][NextCfg]_vars

\* ------------------------------------------------ open, stopped at the mapper
\* The steps of xdev_map_bars that can fail.
MapFaults == {"none", "map_regs", "sig", "stm_map", "stm_rev"}

\* open() up to the return of xdev_map_bars: regions claimed, device
\* enabled, object allocated and registered, regions mapped or not.
MapStart(inp, f, a) ==
    /\ Idle
    /\ inp.has_mod /\ inp.has_conf /\ inp.pdev # NULL
    /\ xdev_find_by_pdev(Machine, inp.pdev) = NULL
    /\ ~RegionsBusy(Machine, inp.pdev)
    /\ FaultApplies(f, build, TRUE, inp.pdev, inp.vf_max)
    /\ LET pdev == inp.pdev
           conf == MkConf(pdev, inp.bdf, inp.idx, inp.cur_cfg_state, inp.vf_max)
           m2   == pci_enable_device(pci_request_regions(Machine, pdev), pdev)
       IN \E r \in {xdev_map_bars(OpenAlloc(m2, conf, a, build), a, pdev, f, build)} :
             /\ Commit(r.m)
             /\ ret' = [Ret("map_bars", pdev, a, r.rv) EXCEPT !.f = f]
    /\ UNCHANGED <<build, closed, thr, cnt>>

\* The rest of that open(): the unwinding from unmap_bars when the mapper
\* failed, qdma_device_online when it succeeded.
MapFinish ==
    /\ ret.op = "map_bars"
    /\ IF ret.rv # 0
       THEN Commit(OpenUnwind(Machine, 2, ret.hndl, ret.pdev, build))
       ELSE Commit(qdma_device_online(Machine, ret.pdev, ret.hndl, "none", build).m)
    /\ ret' = NoRet
    /\ UNCHANGED <<build, closed, thr, cnt>>

NextMap ==
    \/ Return
    \/ \E inp \in OpenInputs, f \in MapFaults, a \in LowestFree : MapStart(inp, f, a)
    \/ MapFinish
    \/ \E p \in PDEV, h \in Registered : Close(p, h)

SpecMap == Init /\ [][NextMap]_vars

\* ------------------------------------------------- the registry on its own
ListPdev == 1..NumListPdev

\* Buffer sizes handed to xdev_list_dump: small ones, and those around the
\* length of a listing of one, two, ... devices.
LineLen == Len(DumpLine(MkConf(CHOOSE p \in ListPdev : TRUE, 0, 0, 0, 0)))

DumpCaps ==
    (1..MaxCap) \cup {LineLen * n + d : n \in 1..MaxIns, d \in 0..1}

InitList ==
    /\ build \in Builds
    /\ xdev_list = << >>
    /\ heap = [a \in 1..MaxIns |-> FreeObj]
    /\ pci = [p \in PDEV |-> PciFree]
    /\ closed = {}
    /\ ret = NoRet
    /\ thr = NoThreads
    /\ cnt = NoCounts

\* xdev_alloc of a configuration for bus device p with caller-supplied idx,
\* then xdev_list_add (open has checked that p is not attached).
Insert(p, idx_in) ==
    /\ Idle
    /\ \A b \in Registered : heap[b].conf.pdev # p
    /\ \E a \in LowestFree :
          \E m \in {xdev_list_add(
                       [Machine EXCEPT !.heap[a] =
                           AllocObj(MkConf(p, 0, idx_in, CFG_UNCONFIGURED, 0))],
                       a, build = "VF")} :
             /\ Commit(m)
             /\ ret' = [Ret("list_add", p, a, m.heap[a].conf.idx) EXCEPT !.st = idx_in]
    /\ UNCHANGED <<build, closed, thr, cnt>>

\* xdev_list_remove and kfree, as close and open's unwinding pair them.
Remove(a) ==
    /\ Idle
    /\ a \in Registered
    /\ Commit(kfree(xdev_list_remove(Machine, a), a))
    /\ ret' = Ret("list_remove", heap[a].conf.pdev, a, 0)
    /\ closed' = closed \cup {a}
    /\ UNCHANGED <<build, thr, cnt>>

Dump(buflen) ==
    /\ Idle
    /\ \E d \in {xdev_list_dump(Machine, buflen)} :
          ret' = [Ret("dump", NULL, NULL, d.len) EXCEPT
                     !.st = buflen, !.nul = d.last_written, !.text = d.text]
    /\ UNCHANGED <<build, xdev_list, heap, pci, closed, thr, cnt>>

First ==
    /\ Idle
    /\ ret' = Ret("list_first", NULL, NULL, xdev_list_first(Machine))
    /\ UNCHANGED <<build, xdev_list, heap, pci, closed, thr, cnt>>

\* xdev_list_next of a device on the list, or of what first and next returned
\* when they ran off the list.
NextOf(a) ==
    /\ Idle
    /\ a \in Registered \cup {ListHeadEntry}
    /\ ret' = Ret("list_next", NULL, a, xdev_list_next(Machine, a))
    /\ UNCHANGED <<build, xdev_list, heap, pci, closed, thr, cnt>>

NextList ==
    \/ Return
    \/ \E p \in ListPdev, idx_in \in 0..MaxIdxIn : Insert(p, idx_in)
    \/ \E a \in DOMAIN heap : Remove(a)
    \/ \E buflen \in DumpCaps : Dump(buflen)
    \/ First
    \/ \E a \in DOMAIN heap \cup {ListHeadEntry} : NextOf(a)

SpecList == InitList /\ [][NextList]_vars

\* --------------------------------------- concurrent calls on one handle
\* The device the callers share: opened on the first bus device, at the
\* first address.
ConcPdev == CHOOSE p \in PDEV : \A q \in PDEV : p <= q
ConcHndl == CHOOSE a \in Addr : \A b \in Addr : a <= b

ConcOpened(b) ==
    qdma_device_open(EmptyMachine,
        [has_mod |-> TRUE, has_conf |-> TRUE, pdev |-> ConcPdev, bdf |-> 0,
         idx |-> 0, cur_cfg_state |-> CFG_UNCONFIGURED,
         vf_max |-> CHOOSE v \in VfIn(b) : TRUE],
        "none", ConcHndl, b)

\* What get_config returned right after open: the caller's snapshot.
ConcSnapshot == ConcOpened(build).m.heap[ConcHndl].conf

InitConc ==
    /\ build \in Builds
    /\ xdev_list = ConcOpened(build).m.list
    /\ heap = ConcOpened(build).m.heap
    /\ pci = ConcOpened(build).m.pci
    /\ closed = {}
    /\ ret = NoRet
    /\ thr = NoThreads
    /\ cnt = NoCounts

ConfigOps == {"get_config", "set_config", "set_cfg_state"}

\* A caller enters one of the handle-taking operations with the shared handle.
ConcStart(t, op) ==
    /\ thr[t].pc = "idle"
    /\ thr' = [thr EXCEPT ![t] = [@ EXCEPT !.op = op, !.pc = "check"]]
    /\ UNCHANGED <<build, xdev_list, heap, pci, closed, ret, cnt>>

\* The call to xdev_check_hndl (the list is searched under xdev_mutex).  The
\* configuration accessors pass the xdev->conf.pdev they loaded through the
\* handle.
ConcCheck(t) ==
    /\ thr[t].pc = "check"
    /\ \E g \in (IF thr[t].op \in ConfigOps THEN Loaded(ConcHndl) ELSE {ConcPdev}) :
          thr' = [thr EXCEPT ![t].pc =
                     IF xdev_check_hndl(Machine, g, ConcHndl) < 0 THEN "done"
                     ELSE IF thr[t].op = "close" THEN "offline"
                     ELSE "body"]
    /\ UNCHANGED <<build, xdev_list, heap, pci, closed, ret, cnt>>

\* What online, offline and the accessors do to the object after validation.
\* On a freed object the access is recorded; its stores go to freed memory.
ConcBody(t) ==
    /\ thr[t].pc = "body"
    /\ thr' = [thr EXCEPT ![t].pc = "done"]
    /\ IF heap[ConcHndl].alive
       THEN /\ Commit(CASE thr[t].op = "online" ->
                             OnlineBody(Machine, ConcHndl, "none", build).m
                        [] thr[t].op = "offline" ->
                             OfflineBody(Machine, ConcHndl, build)
                        [] thr[t].op = "set_config" ->
                             [Machine EXCEPT !.heap[ConcHndl].conf = ConcSnapshot]
                        [] thr[t].op = "set_cfg_state" ->
                             [Machine EXCEPT
                                 !.heap[ConcHndl].conf.cur_cfg_state = CFG_USER]
                        [] OTHER -> Machine)
            /\ UNCHANGED cnt
       ELSE /\ cnt' = [cnt EXCEPT !.uaf = TRUE]
            /\ UNCHANGED <<xdev_list, heap, pci>>
    /\ UNCHANGED <<build, closed, ret>>

\* close, statement by statement after its validation.
CloseOffline(t) ==
    /\ thr[t].pc = "offline"
    /\ thr' = [thr EXCEPT ![t].pc = "unmap"]
    /\ Commit(qdma_device_offline(Machine, ConcPdev, ConcHndl, build))
    /\ UNCHANGED <<build, closed, ret, cnt>>

CloseUnmap(t) ==
    /\ thr[t].pc = "unmap"
    /\ thr' = [thr EXCEPT ![t].pc = "release"]
    /\ IF heap[ConcHndl].alive
       THEN Commit(xdev_unmap_bars(Machine, ConcHndl)) /\ UNCHANGED cnt
       ELSE cnt' = [cnt EXCEPT !.uaf = TRUE] /\ UNCHANGED <<xdev_list, heap, pci>>
    /\ UNCHANGED <<build, closed, ret>>

CloseRelease(t) ==
    /\ thr[t].pc = "release"
    /\ thr' = [thr EXCEPT ![t].pc = "unlink"]
    /\ Commit(pci_disable_device(pci_release_regions(Machine, ConcPdev), ConcPdev))
    /\ cnt' = [cnt EXCEPT !.released = @ + 1]
    /\ UNCHANGED <<build, closed, ret>>

CloseUnlink(t) ==
    /\ thr[t].pc = "unlink"
    /\ thr' = [thr EXCEPT ![t].pc = "free"]
    /\ Commit(xdev_list_remove(Machine, ConcHndl))
    /\ cnt' = [cnt EXCEPT !.unlinked = @ + 1,
                          !.uaf = @ \/ ~heap[ConcHndl].alive]
    /\ UNCHANGED <<build, closed, ret>>

CloseFree(t) ==
    /\ thr[t].pc = "free"
    /\ thr' = [thr EXCEPT ![t].pc = "done"]
    /\ Commit(kfree(Machine, ConcHndl))
    /\ cnt' = [cnt EXCEPT !.freed = @ + 1]
    /\ UNCHANGED <<build, closed, ret>>

NextConc ==
    \E t \in Threads :
        \/ \E op \in HandleOps : ConcStart(t, op)
        \/ ConcCheck(t)
        \/ ConcBody(t)
        \/ CloseOffline(t)
        \/ CloseUnmap(t)
        \/ CloseRelease(t)
        \/ CloseUnlink(t)
        \/ CloseFree(t)

SpecConc == InitConc /\ [][NextConc]_vars

\* ------------------------------ concurrent configuration calls, field by field
\* The accessors copy struct qdma_dev_conf with memcpy and hold no lock while
\* they do (xdev->lock and xdev->hw_prg_lock are initialised by xdev_alloc and
\* taken by none of them): a copy is a sequence of loads and stores of the
\* fields, in an order memcpy is free to choose, among which the other
\* caller's run.
ConfFields == DOMAIN NoConf

\* The snapshots callers pass to set_config: what get_config returned, with
\* two fields modified.
CopySnapshots ==
    {[ConcSnapshot EXCEPT !.idx = @ + i, !.vf_max = @ + i] : i \in Threads}

CopyThreads ==
    [t \in Threads |-> [op |-> "none", pc |-> "idle", x |-> NoConf,
                        left |-> {}, rv |-> 0]]

InitCopy ==
    /\ build \in Builds
    /\ xdev_list = ConcOpened(build).m.list
    /\ heap = ConcOpened(build).m.heap
    /\ pci = ConcOpened(build).m.pci
    /\ closed = {}
    /\ ret = NoRet
    /\ thr = CopyThreads
    /\ cnt = NoCounts

\* A caller enters an accessor with the shared handle; x is its buffer: the
\* snapshot to store for set_config, not yet written for get_config.
CopyStart(t, op, x) ==
    /\ thr[t].pc = "idle"
    /\ thr' = [thr EXCEPT ![t] = [@ EXCEPT !.op = op, !.pc = "check", !.x = x]]
    /\ UNCHANGED <<build, xdev_list, heap, pci, closed, ret, cnt>>

\* The load of xdev->conf.pdev and the call of xdev_check_hndl.
CopyCheck(t) ==
    /\ thr[t].pc = "check"
    /\ thr' = [thr EXCEPT ![t] =
                  IF xdev_check_hndl(Machine, heap[ConcHndl].conf.pdev, ConcHndl) < 0
                  THEN [@ EXCEPT !.pc = "done", !.rv = -EINVAL]
                  ELSE [@ EXCEPT !.pc = "copy", !.left = ConfFields]]
    /\ UNCHANGED <<build, xdev_list, heap, pci, closed, ret, cnt>>

\* One field of the memcpy: out of the object for get_config, into it for
\* set_config.  The copy is complete when no field is left.
CopyField(t, fld) ==
    /\ thr[t].pc = "copy"
    /\ thr[t].op \in {"get_config", "set_config"}
    /\ fld \in thr[t].left
    /\ LET done == thr[t].left = {fld}
           pc   == IF done THEN "done" ELSE "copy"
       IN IF thr[t].op = "get_config"
          THEN /\ thr' = [thr EXCEPT ![t] =
                             [@ EXCEPT !.x[fld] = heap[ConcHndl].conf[fld],
                                       !.left = @ \ {fld}, !.pc = pc]]
               /\ UNCHANGED heap
          ELSE /\ thr' = [thr EXCEPT ![t] =
                             [@ EXCEPT !.left = @ \ {fld}, !.pc = pc]]
               /\ heap' = [heap EXCEPT ![ConcHndl].conf[fld] = thr[t].x[fld]]
    /\ UNCHANGED <<build, xdev_list, pci, closed, ret, cnt>>

\* The one store of set_cfg_state.
CopyState(t) ==
    /\ thr[t].pc = "copy"
    /\ thr[t].op = "set_cfg_state"
    /\ thr' = [thr EXCEPT ![t] = [@ EXCEPT !.left = {}, !.pc = "done"]]
    /\ heap' = [heap EXCEPT ![ConcHndl].conf.cur_cfg_state = CFG_USER]
    /\ UNCHANGED <<build, xdev_list, pci, closed, ret, cnt>>

NextCopy ==
    \E t \in Threads :
        \/ CopyStart(t, "get_config", NoConf)
        \/ \E x \in CopySnapshots : CopyStart(t, "set_config", x)
        \/ CopyStart(t, "set_cfg_state", NoConf)
        \/ CopyCheck(t)
        \/ \E fld \in ConfFields : CopyField(t, fld)
        \/ CopyState(t)

SpecCopy == InitCopy /\ [][NextCopy]_vars

\* ==================================================================== claims
\* The places where open fails after its argument and attachment checks.
OpenFailSteps == {"request", "enable", "dma", "alloc", "map", "no_mode", "online"}

\* ---------------------------------------------------------------------- C1
\* C1 as stated: whenever open() does not return success, having failed at
\* resource claim, device enable, DMA mask negotiation, object allocation,
\* region mapping, the interface-enabled check or the nested online step,
\* then on return the registry has no entry for that bus reference, no
\* register region of the device is mapped, the bus device is disabled and
\* the regions claimed by this call have been released.
C1_OpenFailureLeavesNothing ==
    (ret.op = "open" /\ ret.step \in OpenFailSteps
        /\ ret.rv # QDMA_OPERATION_SUCCESSFUL)
    => /\ xdev_find_by_pdev(Machine, ret.pdev) = NULL
       /\ ~Mapped(heap, ret.pdev)
       /\ pci[ret.pdev].enable_cnt <= 0
       /\ (ret.pci0.owner = "none" => pci[ret.pdev].owner = "none")

\* C1 amended: whenever open() fails at one of those steps, then on return
\* the registry has no entry for that bus reference, the object this call
\* allocated is freed and no region it mapped remains mapped, the enable this
\* call made of the bus device is undone (the enable count is what it was on
\* entry) and the regions are held by whoever held them on entry (released
\* if this call claimed them).
C1_OpenFailureUndone ==
    (ret.op = "open" /\ ret.step \in OpenFailSteps)
    => /\ xdev_find_by_pdev(Machine, ret.pdev) = NULL
       /\ Live = ret.live0
       /\ Mapped(heap, ret.pdev) = ret.map0
       /\ pci[ret.pdev].enable_cnt = ret.pci0.enable_cnt
       /\ pci[ret.pdev].owner = ret.pci0.owner
       /\ (ret.step # "request" => pci[ret.pdev].owner = "none")

\* open failed in the nested online step, after claiming, enabling,
\* allocating, registering and mapping, while another device is registered.
C1_Witness ==
    /\ ret.op = "open" /\ ret.step = "online" /\ ret.rv < 0
    /\ xdev_list # << >>
    /\ ret.pci0 = PciFree

\* ---------------------------------------------------------------------- C2
\* C2: after close() of an opened handle with its bus reference the registry
\* has no device for that bus reference, and every later validate() of the
\* old handle, with any bus reference, fails.
C2_ClosedHandleNeverValidates ==
    /\ (ret.op = "close" /\ ret.rv = 0)
          => xdev_find_by_pdev(Machine, ret.pdev) = NULL
    /\ (ret.op = "check_hndl" /\ ret.hndl \in closed) => ret.rv # 0

\* ---------------------------------------------------------------------- C3
\* C3: validate(p, h) succeeds if and only if p is non-null and h is the
\* identity of a currently registered device whose stored bus reference is p.
C3_ValidateIff ==
    ret.op = "check_hndl"
    => ((ret.rv = 0) <=> (/\ ret.pdev # NULL
                          /\ ret.hndl \in Registered
                          /\ heap[ret.hndl].conf.pdev = ret.pdev))

\* ---------------------------------------------------------------------- C4
\* C4: in every state reachable by open, close, online, offline, setConfig
\* and setConfigState no two devices in the registry have the same bus
\* address.
C4_BdfUnique ==
    \A i, j \in 1..Len(xdev_list) :
        i # j => heap[xdev_list[i]].conf.bdf # heap[xdev_list[j]].conf.bdf

\* ---------------------------------------------------------------------- C5
\* C5: a handle-taking operation called with the handle of a device that has
\* been closed (freed) reads or writes no field of the object before
\* validation, and fails.  (A close() that returns success was called with
\* the handle of a live device: it is the call that frees it.)
C5_ValidationFirst ==
    (/\ ret.op \in HandleOps
     /\ ret.hndl \in closed /\ ~heap[ret.hndl].alive
     /\ ~(ret.op = "close" /\ ret.rv = 0))
    => (ret.pre = "none" /\ ret.rv # 0)

\* ---------------------------------------------------------------------- C6
\* C6: open() returns the success code if and only if every fallible step
\* succeeded; on any failure it returns a non-success code and a zero handle,
\* and on success the handle is non-zero, names a registered device and
\* validates against the supplied bus reference.
C6_OpenSuccessIff ==
    (ret.op = "open" /\ ~ret.crash)
    => /\ (ret.rv = QDMA_OPERATION_SUCCESSFUL) <=> (ret.step = "done")
       /\ ret.rv # QDMA_OPERATION_SUCCESSFUL => ret.hndl = 0
       /\ ret.rv = QDMA_OPERATION_SUCCESSFUL
             => /\ ret.hndl # 0
                /\ ret.hndl \in Registered
                /\ xdev_check_hndl(Machine, ret.pdev, ret.hndl) = 0

\* ---------------------------------------------------------------------- C7
\* C7: after an online() call on an offline registered device that returns a
\* failure code, the device's OFFLINE flag is set.
C7_OfflineAfterFailedOnline ==
    (ret.op = "online" /\ ret.rv < 0 /\ ret.f # "none" /\ ret.off0)
    => heap[ret.hndl].offline

\* ---------------------------------------------------------------------- C8
\* C8: under every interleaving of concurrent close() calls on one handle,
\* and of close() with a concurrent online/offline/getConfig/setConfig/
\* setConfigState on it, the object is unlinked at most once and freed at
\* most once, the bus resources are released at most once, and no operation
\* that passed validation reads or writes the object after it is freed.
C8_TeardownOnce ==
    /\ cnt.unlinked <= 1
    /\ cnt.freed <= 1
    /\ cnt.released <= 1
    /\ ~cnt.uaf

\* ---------------------------------------------------------------------- C9
\* Devices p and q are on one card: same bus number and, except on the
\* virtual-function build, same slot number.
SameCard(p, q) ==
    BusOf(p) = BusOf(q) /\ (build = "VF" \/ SlotOf(p) = SlotOf(q))

ListPdevAt(i) == heap[xdev_list[i]].conf.pdev

\* C9: starting from an empty registry with nothing removed, when the first n
\* devices inserted share one card the n-th has index n, and when the first
\* n-1 share one card and the n-th is on a different card the n-th has
\* index 1; for any bus and slot numbers and any caller-supplied index.
C9_IndexPerCard ==
    closed = {}
    => \A n \in 1..Len(xdev_list) :
          /\ (\A i \in 1..n : SameCard(ListPdevAt(i), ListPdevAt(1)))
                => heap[xdev_list[n]].conf.idx = n
          /\ (/\ n >= 2
              /\ \A i \in 1..(n - 1) : SameCard(ListPdevAt(i), ListPdevAt(1))
              /\ ~SameCard(ListPdevAt(n), ListPdevAt(1)))
                => heap[xdev_list[n]].conf.idx = 1

\* --------------------------------------------------------------------- C10
RECURSIVE ListingFrom(_)
ListingFrom(i) ==
    IF i > Len(xdev_list) THEN << >>
    ELSE DumpLine(heap[xdev_list[i]].conf) \o ListingFrom(i + 1)

\* C10: dump(buf, c) with c >= 1 writes only positions 0..c-1, the
\* terminating NUL included, returns a length of at most c - 1, and when the
\* full listing fits gives one line per registered device in registry order.
C10_DumpWithinCapacity ==
    ret.op = "dump"
    => /\ ret.nul <= ret.st - 1
       /\ ret.rv <= ret.st - 1
       /\ Len(ListingFrom(1)) < ret.st => ret.text = ListingFrom(1)

\* --------------------------------------------------------------------- C11
\* The validator accepts handle h for the bus reference the object stores.
ValidHandle(h) ==
    h \in Registered /\ xdev_check_hndl(Machine, heap[h].conf.pdev, h) = 0

\* C11: setConfigState(h, s) returns; with s outside [UNCONFIGURED, USER] it
\* returns an error before the handle is examined and changes nothing; with s
\* in range and a valid handle it returns success and the state is s, no other
\* field changed; with s in range and an invalid handle it returns an error
\* and changes no device.
C11_SetCfgStateChecked ==
    [][ret'.op = "set_cfg_state"
       => /\ ~ret'.crash
          /\ ret'.st > CFG_USER
                => /\ ret'.rv # 0 /\ ret'.pre = "none"
                   /\ UNCHANGED <<xdev_list, heap, pci>>
          /\ (ret'.st <= CFG_USER /\ ValidHandle(ret'.hndl))
                => /\ ret'.rv = 0
                   /\ heap' = [heap EXCEPT ![ret'.hndl].conf.cur_cfg_state = ret'.st]
                   /\ UNCHANGED <<xdev_list, pci>>
          /\ (ret'.st <= CFG_USER /\ ~ValidHandle(ret'.hndl))
                => /\ ret'.rv # 0
                   /\ UNCHANGED <<xdev_list, heap, pci>>]_vars

\* --------------------------------------------------------------------- C12
\* C12: when setConfig(h, x) on a registered device succeeds, a getConfig(h)
\* that follows immediately succeeds and yields a snapshot equal to x in
\* every field.
C12_SetGetRoundTrip ==
    (ret.op = "set_config" /\ ~ret.crash /\ ret.rv = 0)
    => LET got == qdma_device_get_config(Machine,
                      heap[ret.hndl].conf.pdev, ret.hndl)
       IN got.rv = 0 /\ got.conf = ret.arg

\* --------------------------------------------------------------------- C13
\* Some registered device stores bus reference p.
RegisteredFor(p) == \E a \in Registered : heap[a].conf.pdev = p

\* C13: open() with a bus reference for which a device is already registered
\* returns AlreadyAttached and no handle, and changes nothing: registry
\* membership and order, every device object (configuration, index, OFFLINE
\* flag, mapped regions) and the claimed and enabled state of every bus
\* device are as before the call.
C13_AttachedOpenChangesNothing ==
    [][(ret'.op = "open" /\ ret'.pdev # NULL /\ RegisteredFor(ret'.pdev))
       => /\ ret'.rv = QDMA_ERR_PCI_DEVICE_ALREADY_ATTACHED
          /\ ret'.hndl = 0
          /\ UNCHANGED <<xdev_list, heap, pci>>]_vars

\* open() has returned AlreadyAttached for a registered, mapped device.
C13_Witness ==
    /\ ret.op = "open" /\ ret.step = "attached"
    /\ ret.rv = QDMA_ERR_PCI_DEVICE_ALREADY_ATTACHED
    /\ \E a \in Registered :
          heap[a].conf.pdev = ret.pdev /\ heap[a].regs # NULL

\* --------------------------------------------------------------------- C14
\* C14: when the mapper fails, the region pointers are as the failing step
\* leaves them: after a failed mapping of the primary region, a signature
\* mismatch or an unsupported co-processor revision both pointers are null;
\* after a failed mapping of the co-processor region the primary region is
\* still mapped and the co-processor pointer is null.  The co-processor
\* enabled flag is set only when the mapper succeeds on a co-processor
\* device.
C14_MapFailureState ==
    ret.op = "map_bars"
    => LET xdev == heap[ret.hndl]
       IN /\ (ret.rv # 0) <=> (ret.f # "none")
          /\ ret.f \in {"map_regs", "sig", "stm_rev"}
                => xdev.regs = NULL /\ xdev.stm_regs = NULL
          /\ ret.f = "stm_map"
                => xdev.regs = ret.pdev /\ xdev.stm_regs = NULL
          /\ xdev.stm_en = 1 => ret.rv = 0 /\ IsStmDevice(ret.pdev)

\* The mapper has failed on the co-processor region with the primary region
\* mapped.
C14_Witness ==
    /\ ret.op = "map_bars" /\ ret.rv # 0 /\ ret.f = "stm_map"
    /\ heap[ret.hndl].alive /\ heap[ret.hndl].regs # NULL

\* --------------------------------------------------------------------- C15
\* What thread u's call makes of configuration c when it runs alone.
CopyApply(c, u) ==
    CASE thr[u].op = "set_config"    -> thr[u].x
      [] thr[u].op = "set_cfg_state" -> [c EXCEPT !.cur_cfg_state = CFG_USER]
      [] OTHER                       -> c

\* The configurations the device can hold when the callers' writes are
\* applied whole, one after another, in any order: n writes deep.
RECURSIVE CopyWhole(_)
CopyWhole(n) ==
    IF n = 0 THEN {ConcSnapshot}
    ELSE LET R == CopyWhole(n - 1)
         IN R \cup {CopyApply(c, u) : c \in R, u \in Threads}

\* C15: a getConfig concurrent with setConfig, setConfigState or another
\* setConfig returns a configuration the device held as a whole, before or
\* after a concurrent write, never a mixture of fields; and when all
\* concurrent calls have returned the stored configuration is such a whole
\* configuration: after two concurrent setConfig calls, one of the two
\* snapshots in full.
C15_ConfigCopyAtomic ==
    /\ \A t \in Threads :
          (thr[t].op = "get_config" /\ thr[t].pc = "done" /\ thr[t].rv = 0)
          => thr[t].x \in CopyWhole(NumThreads)
    /\ (\A t \in Threads : thr[t].pc = "done")
          => heap[ConcHndl].conf \in CopyWhole(NumThreads)

\* --------------------------------------------------------------------- C16
\* The call that has returned invoked collaborator c.
Called(c) == \E i \in DOMAIN ret.calls : ret.calls[i] = c

\* C16: when online() fails at a collaborator step, the steps completed
\* before it are undone: a control channel that was initialised is cleaned
\* up again, a device initialisation that succeeded is cleaned up, the
\* device hardware state is cleaned up only if its initialisation had
\* succeeded, and the device stays in the registry.
C16_OnlineFailureUnwinds ==
    (ret.op = "online" /\ ret.rv < 0 /\ ret.f # "none")
    => /\ ret.hndl \in Registered
       /\ Called("mbox_init")
             => Called("mbox_cleanup") /\ ~heap[ret.hndl].mbox
       /\ Called("device_init") => Called("device_cleanup")
       /\ Called("device_cleanup") => Called("device_init")

\* --------------------------------------------------------------------- C17
\* C17: offline() called with the handle of a registered device and a bus
\* reference that differs from the one the device stores does not abort: it
\* sets the OFFLINE flag and tears down the hardware state and the control
\* channel.
C17_OfflinePermissive ==
    (/\ ret.op = "offline"
     /\ ret.hndl \in Registered
     /\ ret.pdev # heap[ret.hndl].conf.pdev)
    => /\ heap[ret.hndl].offline
       /\ Called("device_cleanup") /\ Called("mbox_cleanup")

\* --------------------------------------------------------------------- C18
\* The positions of the first and of the last call of collaborator c in the
\* call that has returned.
FirstAt(c) == CHOOSE i \in DOMAIN ret.calls :
                  ret.calls[i] = c /\ \A j \in 1..(i - 1) : ret.calls[j] # c

LastAt(c) == CHOOSE i \in DOMAIN ret.calls :
                 ret.calls[i] = c /\ \A j \in DOMAIN ret.calls : j > i => ret.calls[j] # c

\* C18: within a call, the control channel is initialised only after the
\* device initialisation has returned success, and in every teardown
\* (offline, inside close, inside a failing open) the control-channel
\* cleanup is invoked before the device cleanup that ends the teardown.
C18_CollaboratorOrder ==
    /\ Called("mbox_init")
          => Called("device_init") /\ FirstAt("device_init") < FirstAt("mbox_init")
    /\ (Called("mbox_cleanup") /\ Called("device_cleanup"))
          => LastAt("mbox_cleanup") < LastAt("device_cleanup")

\* --------------------------------------------------------------------- C19
\* The devices a traversal visits: from a, by next, until NULL; at most n.
RECURSIVE WalkFrom(_, _)
WalkFrom(a, n) ==
    IF a = NULL \/ n = 0 THEN << >>
    ELSE <<a>> \o WalkFrom(xdev_list_next(Machine, a), n - 1)

\* C19: first() returns NULL on an empty registry and the earliest-inserted
\* device otherwise; next(d) returns NULL for the last device and the device
\* inserted right after d otherwise; the traversal from first() by next()
\* until NULL visits each registered device once, in insertion order.
C19_FirstNextTraversal ==
    /\ ret.op = "list_first"
          => /\ ret.rv = IF xdev_list = << >> THEN NULL ELSE xdev_list[1]
             /\ WalkFrom(ret.rv, Len(xdev_list) + 1) = xdev_list
    /\ (ret.op = "list_next" /\ ret.hndl \in Registered)
          => \A i \in 1..Len(xdev_list) :
                xdev_list[i] = ret.hndl
                => ret.rv = IF i = Len(xdev_list) THEN NULL ELSE xdev_list[i + 1]

\* --------------------------------------------------------------------- C20
\* The 1-based rank of the i-th device of registry l (objects in h) among
\* the registered devices of its card, in registry order.
CardRank(l, h, i) ==
    Cardinality({j \in 1..i : SameCard(h[l[j]].conf.pdev, h[l[i]].conf.pdev)})

\* C20: right after every insert(), whatever inserts and removes came
\* before, every registered device has the index that is its rank among the
\* registered devices of its card; remove() changes the index of no
\* remaining device.  Stated for registries of devices on buses other than
\* bus 0 (on bus 0 the scan starts with a matching bus number: C9).
C20_IndexIsRankAfterInsert ==
    [][/\ (/\ ret'.op = "list_add"
           /\ \A i \in 1..Len(xdev_list') :
                 BusOf(heap'[xdev_list'[i]].conf.pdev) # 0)
          => \A i \in 1..Len(xdev_list') :
                heap'[xdev_list'[i]].conf.idx = CardRank(xdev_list', heap', i)
       /\ ret'.op = "list_remove"
          => \A i \in 1..Len(xdev_list') :
                heap'[xdev_list'[i]].conf.idx = heap[xdev_list'[i]].conf.idx]_vars

\* --------------------------------------------------------------------- C21
\* C21: in every state reached by open, online, offline, setConfig,
\* setConfigState and close calls the configuration state of every
\* registered device lies within [UNCONFIGURED, USER], and it is
\* UNCONFIGURED when open() has just inserted the device.
C21_CfgStateInRange ==
    /\ \A a \in Registered :
          heap[a].conf.cur_cfg_state \in CFG_UNCONFIGURED..CFG_USER
    /\ (ret.op = "open" /\ ret.rv = QDMA_OPERATION_SUCCESSFUL /\ ret.step = "done")
          => heap[ret.hndl].conf.cur_cfg_state = CFG_UNCONFIGURED

\* --------------------------------------------------------------------- C22
\* The collaborator calls c[i..] are paired, given whether the device
\* initialisation (hw) and the control-channel initialisation (mbox) of the
\* device are in effect before c[i]: a cleanup is called only while its
\* initialisation is in effect, and ends it.
RECURSIVE Paired(_, _, _, _)
Paired(c, i, hw, mbox) ==
    IF i > Len(c) THEN TRUE
    ELSE CASE c[i] = "device_init"    -> Paired(c, i + 1, TRUE, mbox)
           [] c[i] = "device_cleanup" -> hw /\ Paired(c, i + 1, FALSE, mbox)
           [] c[i] = "mbox_init"      -> Paired(c, i + 1, hw, TRUE)
           [] c[i] = "mbox_cleanup"   -> mbox /\ Paired(c, i + 1, hw, FALSE)
           [] OTHER                   -> Paired(c, i + 1, hw, mbox)

\* C22: in every execution of open, online, offline and close, the device
\* cleanup is invoked on a device only when a device initialisation on it
\* has succeeded and has not yet been cleaned up, and the control-channel
\* cleanup only when the control channel has been initialised and not yet
\* cleaned up.
C22_CleanupPaired ==
    [][ret'.op \in {"open", "online", "offline", "close"}
       => LET h   == ret'.hndl
              old == ret'.op # "open" /\ h \in Addr /\ heap[h].alive
          IN Paired(ret'.calls, 1, old /\ heap[h].hw, old /\ heap[h].mbox)]_vars

====
